---- MODULE Spec2Model ----
(***************************************************************************)
(* Model of media/transcoder/create_job_template_with_notification.py.     *)
(*                                                                         *)
(* The script is one function, create_job_template, and a command-line     *)
(* entry point that parses four options with argparse and calls it.  The   *)
(* model follows one run of the program statement by statement.  A run     *)
(* starts either at the command line (entry = "cli", the __main__ block)   *)
(* or at a direct call of create_job_template by an importing caller       *)
(* (entry = "direct").  The transcoder client library and the remote       *)
(* service are not code of this repository: a call into them either        *)
(* returns or raises, and the model takes both outcomes.                   *)
(*                                                                         *)
(* Python strings are TLA+ strings; an f-string is the concatenation of    *)
(* its literal parts and its arguments.  None is the empty tuple <<>> and  *)
(* a value v that may be None is the one-element tuple <<v>>.              *)
(***************************************************************************)
EXTENDS Integers, Sequences, FiniteSets, TLC

VARIABLES
    entry,                  \* "cli" | "direct": how this run was started
    argv,                   \* sys.argv[1:], a sequence of strings
    pc,                     \* the statement the run is at
    namespace,              \* <<>> or <<the namespace parse_args returned>>
    args,                   \* <<>> or <<the four arguments of create_job_template>>
    calls,                  \* how many times create_job_template was entered
    client,                 \* whether TranscoderServiceClient() has returned
    parent,                 \* local of create_job_template
    pubsub_topic_fullname,  \* local of create_job_template
    job_template,           \* local of create_job_template
    requests,               \* the requests issued through the client, in order
    response,               \* <<>> or <<the JobTemplate the service returned>>
    stdout,                 \* the lines printed
    retval,                 \* <<>> or <<the value create_job_template returned>>
    exc,                    \* <<>> or <<the exception create_job_template raised>>
    exit_status             \* <<>> or <<the status the process exited with>>

vars == <<entry, argv, pc, namespace, args, calls, client, parent, pubsub_topic_fullname,
          job_template, requests, response, stdout, retval, exc, exit_status>>

None == <<>>

--------------------------------------------------------------------------
(* Bounds of the model. *)

\* The command line holds at most this many items (an option with its value,
\* a lone option, or a lone value).
MaxItems == 3

\* Argument strings of a direct call: empty, plain, and one holding a '/'.
Strings == {"", "p", "a/b"}

\* Values typed on the command line.
CliValues == {"p", "a/b"}

--------------------------------------------------------------------------
(* Strings. *)

IsPrefix(a, b) ==
    /\ Len(a) <= Len(b)
    /\ (Len(a) = 0 \/ SubSeq(b, 1, Len(a)) = a)

\* argparse: an argument string that starts with the prefix character '-'
\* is an option string; everything else, the empty string included, is a
\* value.
IsFlagLike(t) == Len(t) > 0 /\ SubSeq(t, 1, 1) = "-"

--------------------------------------------------------------------------
(* The command line: the parser built in the __main__ block. *)

\* dest of each option string the parser knows.  "-h" and "--help" are the
\* help option argparse adds to every parser.
OptionDest ==
    [o \in {"--project-id", "--location", "--template-id", "--pubsub_topic",
            "-h", "--help"} |->
        CASE o = "--project-id"   -> "project_id"
          [] o = "--location"     -> "location"
          [] o = "--template-id"  -> "template_id"
          [] o = "--pubsub_topic" -> "pubsub_topic"
          [] OTHER                -> "help"]

OptionStrings == DOMAIN OptionDest

\* The options declared with required=True.
RequiredDests == {"project_id", "pubsub_topic"}

\* DefaultNamespace with another default location.
DefaultNamespaceOtherLocation ==
    [project_id   |-> None,
     location     |-> <<"us-east1">>,
     template_id  |-> <<"my-job-template">>,
     pubsub_topic |-> None]

\* The namespace before any argument is read: each option's default.
DefaultNamespace ==
    [project_id   |-> None,
     location     |-> <<"us-central1">>,
     template_id  |-> <<"my-job-template">>,
     pubsub_topic |-> None]

\* argparse resolves an option string to an option: an exact match, or else
\* the one long option it abbreviates (allow_abbrev is on by default).
\* Anything else is not recognised.
Resolve(t) ==
    IF t \in OptionStrings THEN OptionDest[t]
    ELSE LET m == {o \in OptionStrings :
                      /\ IsPrefix("--", t)
                      /\ IsPrefix("--", o)
                      /\ IsPrefix(t, o)}
         IN  IF Cardinality(m) = 1
             THEN OptionDest[CHOOSE o \in m : TRUE]
             ELSE "unrecognized"

\* parser.parse_args(), reading toks from position i on.  ns is the
\* namespace so far, seen the dests already given, extras whether an
\* argument was left over.  The result's status is
\*   "ok"    the namespace is returned,
\*   "help"  the help option printed the usage and exited with status 0,
\*   "error" parser.error printed the usage and exited with status 2.
RECURSIVE ParseFrom(_, _, _, _, _)
ParseFrom(toks, i, ns, seen, extras) ==
    IF i > Len(toks)
    THEN IF ~(RequiredDests \subseteq seen) THEN [status |-> "error", ns |-> ns]
         ELSE IF extras THEN [status |-> "error", ns |-> ns]
         ELSE [status |-> "ok", ns |-> ns]
    ELSE LET t == toks[i]
             d == Resolve(t)
         IN  IF ~IsFlagLike(t) \/ d = "unrecognized"
             THEN ParseFrom(toks, i + 1, ns, seen, TRUE)
             ELSE IF d = "help"
             THEN [status |-> "help", ns |-> ns]
             ELSE IF i + 1 > Len(toks) \/ IsFlagLike(toks[i + 1])
             THEN [status |-> "error", ns |-> ns]
             ELSE ParseFrom(toks, i + 2, [ns EXCEPT ![d] = <<toks[i + 1]>>],
                            seen \cup {d}, extras)

parse_args(toks) == ParseFrom(toks, 1, DefaultNamespace, {}, FALSE)

\* The command lines of the model: up to MaxItems items, each an option
\* with a value, a lone option string or a lone value.
ValueFlags == {"--project-id", "--location", "--template-id", "--pubsub_topic",
               "--pubsub"}

Items ==
    {<<f, v>> : f \in ValueFlags, v \in CliValues}
        \cup {<<"-h">>, <<"--bogus">>, <<"--location">>, <<"p">>}

RECURSIVE Flatten(_)
Flatten(items) ==
    IF items = <<>> THEN <<>> ELSE Head(items) \o Flatten(Tail(items))

CommandLines ==
    {Flatten(s) : s \in UNION {[1..n -> Items] : n \in 0..MaxItems}}

--------------------------------------------------------------------------
(* create_job_template: the values it computes. *)

\* parent = f"projects/{project_id}/locations/{location}"
Parent(project_id, location) ==
    "projects/" \o project_id \o "/locations/" \o location

\* PubsubTopicFullname with its two arguments interpolated the wrong way
\* round.
PubsubTopicFullnameSwapped(project_id, pubsub_topic) ==
    "projects/" \o pubsub_topic \o "/topics/" \o project_id

\* pubsub_topic_fullname = f"projects/{project_id}/topics/{pubsub_topic}"
PubsubTopicFullname(project_id, pubsub_topic) ==
    "projects/" \o project_id \o "/topics/" \o pubsub_topic

\* TemplateName with the location left out of the path.
TemplateNameNoLocation(project_id, location, template_id) ==
    "projects/" \o project_id \o "/jobTemplates/" \o template_id

\* job_template.name =
\*     f"projects/{project_id}/locations/{location}/jobTemplates/{template_id}"
TemplateName(project_id, location, template_id) ==
    "projects/" \o project_id \o "/locations/" \o location
        \o "/jobTemplates/" \o template_id

\* transcoder_v1beta1.types.JobConfig(): a message with every field at its
\* default.
EmptyJobConfig ==
    [pubsub_destination |-> [topic |-> ""],
     elementary_streams |-> <<>>,
     mux_streams        |-> <<>>]

\* transcoder_v1beta1.types.JobTemplate()
EmptyJobTemplate == [name |-> "", config |-> EmptyJobConfig]

\* ElementaryStreams with a digit dropped from the SD bitrate.
ElementaryStreamsBitrateTypo ==
    << [key          |-> "video-stream0",
        video_stream |-> [codec         |-> "h264",
                          height_pixels |-> 360,
                          width_pixels  |-> 640,
                          bitrate_bps   |-> 55000,
                          frame_rate    |-> 60]],
       [key          |-> "video-stream1",
        video_stream |-> [codec         |-> "h264",
                          height_pixels |-> 720,
                          width_pixels  |-> 1280,
                          bitrate_bps   |-> 2500000,
                          frame_rate    |-> 60]],
       [key          |-> "audio-stream0",
        audio_stream |-> [codec |-> "aac", bitrate_bps |-> 64000]] >>

\* The elementary_streams list of the JobConfig.
ElementaryStreams ==
    << [key          |-> "video-stream0",
        video_stream |-> [codec         |-> "h264",
                          height_pixels |-> 360,
                          width_pixels  |-> 640,
                          bitrate_bps   |-> 550000,
                          frame_rate    |-> 60]],
       [key          |-> "video-stream1",
        video_stream |-> [codec         |-> "h264",
                          height_pixels |-> 720,
                          width_pixels  |-> 1280,
                          bitrate_bps   |-> 2500000,
                          frame_rate    |-> 60]],
       [key          |-> "audio-stream0",
        audio_stream |-> [codec |-> "aac", bitrate_bps |-> 64000]] >>

\* MuxStreams whose "hd" entry names a video stream that is not defined.
MuxStreamsDanglingKey ==
    << [key                |-> "sd",
        container          |-> "mp4",
        elementary_streams |-> <<"video-stream0", "audio-stream0">>],
       [key                |-> "hd",
        container          |-> "mp4",
        elementary_streams |-> <<"video-stream2", "audio-stream0">>] >>

\* The mux_streams list of the JobConfig.
MuxStreams ==
    << [key                |-> "sd",
        container          |-> "mp4",
        elementary_streams |-> <<"video-stream0", "audio-stream0">>],
       [key                |-> "hd",
        container          |-> "mp4",
        elementary_streams |-> <<"video-stream1", "audio-stream0">>] >>

\* transcoder_v1beta1.types.JobConfig(pubsub_destination=..., ...)
JobConfig(topic) ==
    [pubsub_destination |-> [topic |-> topic],
     elementary_streams |-> ElementaryStreams,
     mux_streams        |-> MuxStreams]

\* The request client.create_job_template(parent=..., job_template=...,
\* job_template_id=...) issues.
CreateJobTemplateRequest(par, tmpl, id) ==
    [method          |-> "create_job_template",
     parent          |-> par,
     job_template    |-> tmpl,
     job_template_id |-> id]

\* PrintedLine printing the locally built job_template.name instead of the
\* response's.
PrintedLineLocalName(resp) == "Job template: " \o job_template.name

\* The line print(f"Job template: {response.name}") writes.
PrintedLine(resp) == "Job template: " \o resp.name

--------------------------------------------------------------------------
(* The client library and the remote service. *)

\* What TranscoderServiceClient() raises when it finds no credentials.
ClientErrors == {"DefaultCredentialsError"}

\* What client.create_job_template raises when the service refuses the
\* request: authentication failure, quota, malformed request, duplicate id.
ServiceErrors ==
    {"Unauthenticated", "ResourceExhausted", "InvalidArgument", "AlreadyExists"}

\* The names the service may give the created template: the one requested,
\* or its own canonical spelling of it (the project by number).
ServiceNames(req) ==
    {req.parent \o "/jobTemplates/" \o req.job_template_id,
     "projects/0123456789/jobTemplates/" \o req.job_template_id}

\* The JobTemplate messages the service may answer a request with.
ServiceResponses(req) ==
    {[name |-> n, config |-> req.job_template.config] : n \in ServiceNames(req)}

--------------------------------------------------------------------------
(* The run. *)

\* The argument tuples of a direct call.
DirectArgs ==
    [project_id : Strings, location : Strings, template_id : Strings,
     pubsub_topic : Strings]

Init ==
    /\ \/ /\ entry = "cli"
          /\ argv \in CommandLines
          /\ args = None
          /\ pc = "parse_args"
       \/ /\ entry = "direct"
          /\ argv = <<>>
          /\ args \in {<<a>> : a \in DirectArgs}
          /\ pc = "call"
    /\ namespace = None
    /\ calls = 0
    /\ client = FALSE
    /\ parent = ""
    /\ pubsub_topic_fullname = ""
    /\ job_template = EmptyJobTemplate
    /\ requests = <<>>
    /\ response = None
    /\ stdout = <<>>
    /\ retval = None
    /\ exc = None
    /\ exit_status = None

\* args = parser.parse_args(): the namespace, or the process exits (status 0
\* after printing the help, status 2 on a usage error).
ParseArgs ==
    /\ pc = "parse_args"
    /\ LET r == parse_args(argv)
       IN  CASE r.status = "ok" ->
                    /\ namespace' = <<r.ns>>
                    /\ pc' = "main_call"
                    /\ UNCHANGED <<stdout, exit_status>>
             [] r.status = "help" ->
                    /\ stdout' = Append(stdout, "usage")
                    /\ exit_status' = <<0>>
                    /\ pc' = "exited"
                    /\ UNCHANGED namespace
             [] OTHER ->
                    /\ exit_status' = <<2>>
                    /\ pc' = "exited"
                    /\ UNCHANGED <<namespace, stdout>>
    /\ UNCHANGED <<entry, argv, args, calls, client, parent,
                   pubsub_topic_fullname, job_template, requests, response,
                   retval, exc>>

\* create_job_template(args.project_id, args.location, args.template_id,
\*                     args.pubsub_topic)
CallFromMain ==
    /\ pc = "main_call"
    /\ args' = <<[project_id   |-> namespace[1].project_id[1],
                  location     |-> namespace[1].location[1],
                  template_id  |-> namespace[1].template_id[1],
                  pubsub_topic |-> namespace[1].pubsub_topic[1]]>>
    /\ calls' = calls + 1
    /\ pc' = "new_client"
    /\ UNCHANGED <<entry, argv, namespace, client, parent, pubsub_topic_fullname,
                   job_template, requests, response, stdout, retval, exc,
                   exit_status>>

\* An importing caller enters create_job_template with its own arguments.
CallDirect ==
    /\ pc = "call"
    /\ calls' = calls + 1
    /\ pc' = "new_client"
    /\ UNCHANGED <<entry, argv, namespace, args, client, parent,
                   pubsub_topic_fullname, job_template, requests, response,
                   stdout, retval, exc, exit_status>>

\* client = TranscoderServiceClient() returns.
NewClient ==
    /\ pc = "new_client"
    /\ client' = TRUE
    /\ pc' = "format"
    /\ UNCHANGED <<entry, argv, namespace, args, calls, parent,
                   pubsub_topic_fullname, job_template, requests, response,
                   stdout, retval, exc, exit_status>>

\* client = TranscoderServiceClient() raises; nothing catches it.
NewClientRaises ==
    /\ pc = "new_client"
    /\ \E e \in ClientErrors : exc' = <<e>>
    /\ pc' = "raised"
    /\ UNCHANGED <<entry, argv, namespace, args, calls, client, parent,
                   pubsub_topic_fullname, job_template, requests, response,
                   stdout, retval, exit_status>>

\* FormatNames with a local check that rejects an empty project id.
FormatNamesValidating ==
    /\ pc = "format"
    /\ IF args[1].project_id = ""
       THEN /\ exc' = <<"ValueError">>
            /\ pc' = "raised"
            /\ UNCHANGED <<parent, pubsub_topic_fullname, job_template>>
       ELSE /\ parent' = Parent(args[1].project_id, args[1].location)
            /\ pubsub_topic_fullname' =
                   PubsubTopicFullname(args[1].project_id, args[1].pubsub_topic)
            /\ job_template' =
                   [EmptyJobTemplate EXCEPT
                       !.name = TemplateName(args[1].project_id,
                                             args[1].location,
                                             args[1].template_id)]
            /\ pc' = "config"
            /\ UNCHANGED exc
    /\ UNCHANGED <<entry, argv, namespace, args, calls, client, requests,
                   response, stdout, retval, exit_status>>

\* parent, pubsub_topic_fullname, job_template = JobTemplate() and
\* job_template.name are assigned.
FormatNames ==
    /\ pc = "format"
    /\ parent' = Parent(args[1].project_id, args[1].location)
    /\ pubsub_topic_fullname' =
           PubsubTopicFullname(args[1].project_id, args[1].pubsub_topic)
    /\ job_template' =
           [EmptyJobTemplate EXCEPT
               !.name = TemplateName(args[1].project_id, args[1].location,
                                     args[1].template_id)]
    /\ pc' = "config"
    /\ UNCHANGED <<entry, argv, namespace, args, calls, client, requests,
                   response, stdout, retval, exc, exit_status>>

\* job_template.config = JobConfig(...)
BuildConfig ==
    /\ pc = "config"
    /\ job_template' =
           [job_template EXCEPT !.config = JobConfig(pubsub_topic_fullname)]
    /\ pc' = "create"
    /\ UNCHANGED <<entry, argv, namespace, args, calls, client, parent,
                   pubsub_topic_fullname, requests, response, stdout, retval,
                   exc, exit_status>>

\* client.create_job_template(...) is entered: the request goes out and the
\* caller blocks.
SendCreate ==
    /\ pc = "create"
    /\ requests' = Append(requests,
                          CreateJobTemplateRequest(parent, job_template,
                                                   args[1].template_id))
    /\ pc' = "await"
    /\ UNCHANGED <<entry, argv, namespace, args, calls, client, parent,
                   pubsub_topic_fullname, job_template, response, stdout,
                   retval, exc, exit_status>>

\* client.create_job_template(...) returns the created template.
CreateReturns ==
    /\ pc = "await"
    /\ \E r \in ServiceResponses(requests[Len(requests)]) : response' = <<r>>
    /\ pc' = "print"
    /\ UNCHANGED <<entry, argv, namespace, args, calls, client, parent,
                   pubsub_topic_fullname, job_template, requests, stdout,
                   retval, exc, exit_status>>

\* CreateRaises with a handler that tries the call once more before giving
\* up.
CreateRaisesThenRetries ==
    /\ pc = "await"
    /\ IF Len(requests) < 2
       THEN /\ pc' = "create"
            /\ UNCHANGED exc
       ELSE /\ \E e \in ServiceErrors : exc' = <<e>>
            /\ pc' = "raised"
    /\ UNCHANGED <<entry, argv, namespace, args, calls, client, parent,
                   pubsub_topic_fullname, job_template, requests, response,
                   stdout, retval, exit_status>>

\* CreateRaises with a handler that wraps the service's error in its own.
CreateRaisesTranslated ==
    /\ pc = "await"
    /\ \E e \in ServiceErrors : exc' = <<"RuntimeError">>
    /\ pc' = "raised"
    /\ UNCHANGED <<entry, argv, namespace, args, calls, client, parent,
                   pubsub_topic_fullname, job_template, requests, response,
                   stdout, retval, exit_status>>

\* client.create_job_template(...) raises; nothing catches it.
CreateRaises ==
    /\ pc = "await"
    /\ \E e \in ServiceErrors : exc' = <<e>>
    /\ pc' = "raised"
    /\ UNCHANGED <<entry, argv, namespace, args, calls, client, parent,
                   pubsub_topic_fullname, job_template, requests, response,
                   stdout, retval, exit_status>>

\* print(f"Job template: {response.name}")
PrintName ==
    /\ pc = "print"
    /\ stdout' = Append(stdout, PrintedLine(response[1]))
    /\ pc' = "return"
    /\ UNCHANGED <<entry, argv, namespace, args, calls, client, parent,
                   pubsub_topic_fullname, job_template, requests, response,
                   retval, exc, exit_status>>

\* return response
ReturnResponse ==
    /\ pc = "return"
    /\ retval' = response
    /\ pc' = "returned"
    /\ UNCHANGED <<entry, argv, namespace, args, calls, client, parent,
                   pubsub_topic_fullname, job_template, requests, response,
                   stdout, exc, exit_status>>

\* The __main__ block ends after the call: the process exits with status 0.
ExitAfterReturn ==
    /\ entry = "cli"
    /\ pc = "returned"
    /\ exit_status' = <<0>>
    /\ pc' = "exited"
    /\ UNCHANGED <<entry, argv, namespace, args, calls, client, parent,
                   pubsub_topic_fullname, job_template, requests, response,
                   stdout, retval, exc>>

\* The __main__ block has no handler: the exception ends the process with
\* status 1.
ExitOnException ==
    /\ entry = "cli"
    /\ pc = "raised"
    /\ exit_status' = <<1>>
    /\ pc' = "exited"
    /\ UNCHANGED <<entry, argv, namespace, args, calls, client, parent,
                   pubsub_topic_fullname, job_template, requests, response,
                   stdout, retval, exc>>

Next ==
    \/ ParseArgs
    \/ CallFromMain
    \/ CallDirect
    \/ NewClient
    \/ NewClientRaises
    \/ FormatNames
    \/ BuildConfig
    \/ SendCreate
    \/ CreateReturns
    \/ CreateRaises
    \/ PrintName
    \/ ReturnResponse
    \/ ExitAfterReturn
    \/ ExitOnException

Spec == Init /\ [][Next]_vars

--------------------------------------------------------------------------
(* Properties. *)

\* The dests a command line gives, in any spelling argparse accepts.
RECURSIVE GivenFrom(_, _)
GivenFrom(toks, i) ==
    IF i > Len(toks) THEN {}
    ELSE (IF IsFlagLike(toks[i]) /\ Resolve(toks[i]) # "unrecognized"
          THEN {Resolve(toks[i])} ELSE {})
         \cup GivenFrom(toks, i + 1)

Given == GivenFrom(argv, 1)

\* toks is a sequence of option/value pairs whose options all resolve into
\* dests.
RECURSIVE OnlyPairsOf(_, _, _)
OnlyPairsOf(toks, i, dests) ==
    IF i > Len(toks) THEN TRUE
    ELSE /\ i + 1 <= Len(toks)
         /\ IsFlagLike(toks[i])
         /\ Resolve(toks[i]) \in dests
         /\ ~IsFlagLike(toks[i + 1])
         /\ OnlyPairsOf(toks, i + 2, dests)

\* create_job_template has been entered and has returned or raised.
Completed == retval # None \/ exc # None

Range(f) == {f[i] : i \in DOMAIN f}

(* C1, as claimed: every invocation of create_job_template issues exactly
   one create-job-template request, never zero.  Refuted by the run in
   which TranscoderServiceClient() raises before any request is built. *)
C1_ExactlyOneRequestAlways ==
    Completed => Len(requests) = 1

(* C1, amended: an invocation issues at most one request, always a
   create-job-template request, never a second one whether the call
   succeeds or fails; it issues exactly one when the client was
   constructed, and none when the client constructor raised. *)
C1_OneRequestOnceClientBuilt ==
    /\ Len(requests) <= 1
    /\ \A i \in 1..Len(requests) : requests[i].method = "create_job_template"
    /\ requests # <<>> => calls = 1 /\ client
    /\ Completed => (IF client THEN Len(requests) = 1 ELSE requests = <<>>)

\* C1's case: the create call failed, and one request was made.
C1_Witness ==
    /\ exc # None
    /\ client
    /\ Len(requests) = 1

(* C2: the one line create_job_template prints carries the name of the
   response the service returned (not the locally built
   job_template.name); nothing is printed before the create call has
   returned; the function returns that same response. *)
C2_PrintsResponseName ==
    /\ pc \in {"call", "new_client", "format", "config", "create", "await",
               "print"} => stdout = <<>>
    /\ calls > 0 /\ stdout # <<>> =>
           /\ response # None
           /\ Len(requests) = 1
           /\ response[1] \in ServiceResponses(requests[1])
           /\ stdout = <<"Job template: " \o response[1].name>>
    /\ retval # None =>
           /\ retval = response
           /\ stdout = <<"Job template: " \o retval[1].name>>
    /\ pc \in {"return", "returned"} => Len(stdout) = 1

\* C2's case: the service named the template differently from the local
\* job_template.name, and the function printed and returned.
C2_Witness ==
    /\ retval # None
    /\ retval[1].name # job_template.name
    /\ Len(stdout) = 1

(* C3: when the remote create call fails, the failure reaches the caller
   unchanged, no "Job template:" line is printed, nothing is returned and
   no second attempt is made. *)
C3_FailurePropagatesUnchanged ==
    /\ exc # None =>
           /\ retval = None
           /\ response = None
           /\ stdout = <<>>
           /\ pc \in {"raised", "exited"}
           /\ Len(requests) <= 1
           /\ exit_status # None => exit_status = <<1>>
    /\ exc # None /\ requests # <<>> => exc[1] \in ServiceErrors
    /\ pc = "raised" => exc # None

\* C3's case: the service refused a duplicate template id and the caller of
\* create_job_template got that error.
C3_Witness ==
    /\ entry = "direct"
    /\ pc = "raised"
    /\ exc = <<"AlreadyExists">>
    /\ Len(requests) = 1

(* C4: --project-id and --pubsub_topic are required: when either is
   missing, parse_args returns no namespace, the process exits (status 2,
   or 0 when the help option was read first) and create_job_template is
   never called.  When the command line is just the two required options,
   create_job_template is called exactly once, with location
   "us-central1" and template_id "my-job-template". *)
C4_RequiredAndDefaults ==
    /\ calls <= 1
    /\ entry = "cli" /\ ~({"project_id", "pubsub_topic"} \subseteq Given) =>
           /\ namespace = None
           /\ calls = 0
           /\ requests = <<>>
           /\ pc \in {"parse_args", "exited"}
           /\ pc = "exited" =>
                  \/ exit_status = <<2>>
                  \/ "help" \in Given /\ exit_status = <<0>>
    /\ /\ entry = "cli"
       /\ Given = {"project_id", "pubsub_topic"}
       /\ OnlyPairsOf(argv, 1, {"project_id", "pubsub_topic"})
       => /\ pc # "parse_args" => namespace # None
          /\ pc \notin {"parse_args", "main_call"} =>
                 /\ calls = 1
                 /\ args[1].location = "us-central1"
                 /\ args[1].template_id = "my-job-template"
                 /\ args[1].project_id = namespace[1].project_id[1]
                 /\ args[1].pubsub_topic = namespace[1].pubsub_topic[1]

\* C4's case: a command line of the two required options only; the call
\* was made with the two defaults and its request went out.
C4_Witness ==
    /\ entry = "cli"
    /\ Len(argv) = 4
    /\ Given = {"project_id", "pubsub_topic"}
    /\ calls = 1
    /\ Len(requests) = 1
    /\ requests[1].parent = "projects/p/locations/us-central1"
    /\ requests[1].job_template_id = "my-job-template"

\* The video and the audio streams of a configuration, by position.
VideoIndices(cfg) ==
    {i \in DOMAIN cfg.elementary_streams :
        "video_stream" \in DOMAIN cfg.elementary_streams[i]}

AudioIndices(cfg) ==
    {i \in DOMAIN cfg.elementary_streams :
        "audio_stream" \in DOMAIN cfg.elementary_streams[i]}

(* C5: whatever the four inputs, the configuration sent holds exactly two
   video renditions (h264 640x360 at 550000 bps and h264 1280x720 at
   2500000 bps, both at 60 fps), exactly one audio rendition (aac at 64000
   bps), exactly two mux streams keyed "sd" and "hd", both "mp4", and a
   pub/sub destination. *)
C5_LiteralEncodingConfig ==
    \A i \in 1..Len(requests) :
        LET cfg == requests[i].job_template.config
            es  == cfg.elementary_streams
        IN  /\ Len(es) = 3
            /\ Cardinality(VideoIndices(cfg)) = 2
            /\ Cardinality(AudioIndices(cfg)) = 1
            /\ VideoIndices(cfg) \cap AudioIndices(cfg) = {}
            /\ {es[v].video_stream : v \in VideoIndices(cfg)} =
                   {[codec |-> "h264", height_pixels |-> 360,
                     width_pixels |-> 640, bitrate_bps |-> 550000,
                     frame_rate |-> 60],
                    [codec |-> "h264", height_pixels |-> 720,
                     width_pixels |-> 1280, bitrate_bps |-> 2500000,
                     frame_rate |-> 60]}
            /\ {es[a].audio_stream : a \in AudioIndices(cfg)} =
                   {[codec |-> "aac", bitrate_bps |-> 64000]}
            /\ Len(cfg.mux_streams) = 2
            /\ {m.key : m \in Range(cfg.mux_streams)} = {"sd", "hd"}
            /\ \A m \in Range(cfg.mux_streams) : m.container = "mp4"
            /\ IsPrefix("projects/", cfg.pubsub_destination.topic)

\* C5's case: a request went out for inputs that are empty or hold a '/'.
C5_Witness ==
    /\ Len(requests) = 1
    /\ args[1].project_id = "a/b"
    /\ args[1].location = ""
    /\ args[1].pubsub_topic = "a/b"
    /\ Len(requests[1].job_template.config.elementary_streams) = 3

(* C6, as the module docstring has it: a command line that gives
   --project-id (and at most --location and --template-id besides) is
   parsed and the run reaches the create-job-template call.  The parser
   requires --pubsub_topic too, so such a command line exits with status
   2. *)
C6_ProjectIdAloneRuns ==
    /\ entry = "cli"
    /\ "project_id" \in Given
    /\ OnlyPairsOf(argv, 1, {"project_id", "location", "template_id"})
    /\ pc = "exited"
    => /\ namespace # None
       /\ calls = 1
       /\ Len(requests) = 1

(* C7, as claimed: for any four input strings create_job_template always
   reaches the remote create call, with the inputs interpolated verbatim.
   Refuted by the run in which TranscoderServiceClient() raises. *)
C7_AlwaysReachesCreate ==
    Completed =>
        /\ requests # <<>>
        /\ requests[1].parent =
               "projects/" \o args[1].project_id \o "/locations/"
                   \o args[1].location

(* C7, amended: create_job_template checks and rejects no input.  The only
   failure before the request is the client constructor raising, which
   reads none of the inputs; once the client is constructed, every step up
   to the create call can be taken for any four strings, and the request
   carries them interpolated verbatim. *)
C7_NoLocalValidation ==
    /\ exc # None /\ requests = <<>> => ~client /\ exc[1] \in ClientErrors
    /\ pc = "new_client" => ENABLED NewClient
    /\ pc = "format" => ENABLED FormatNames
    /\ pc = "config" => ENABLED BuildConfig
    /\ pc = "create" => ENABLED SendCreate
    /\ client /\ Completed => requests # <<>>
    /\ requests # <<>> =>
           LET a == args[1]
               r == requests[1]
           IN  /\ r.parent =
                      "projects/" \o a.project_id \o "/locations/" \o a.location
               /\ r.job_template_id = a.template_id
               /\ r.job_template.name =
                      "projects/" \o a.project_id \o "/locations/"
                          \o a.location \o "/jobTemplates/" \o a.template_id
               /\ r.job_template.config.pubsub_destination.topic =
                      "projects/" \o a.project_id \o "/topics/"
                          \o a.pubsub_topic

\* C7's case: an empty project id and a template id holding a '/' reached
\* the create call.
C7_Witness ==
    /\ Len(requests) = 1
    /\ args[1].project_id = ""
    /\ args[1].template_id = "a/b"
    /\ requests[1].job_template.name = "projects//locations/p/jobTemplates/a/b"

(* C8: the three identifiers of the request agree: parent is
   projects/{project_id}/locations/{location}, job_template_id is the
   template_id argument, and job_template.name is parent, "/jobTemplates/"
   and job_template_id, so the name lies under the parent. *)
C8_IdentifiersConsistent ==
    \A i \in 1..Len(requests) :
        LET a == args[1]
            r == requests[i]
        IN  /\ r.parent =
                   "projects/" \o a.project_id \o "/locations/" \o a.location
            /\ r.job_template_id = a.template_id
            /\ r.job_template.name =
                   r.parent \o "/jobTemplates/" \o r.job_template_id
            /\ IsPrefix(r.parent \o "/", r.job_template.name)

\* C8's case: a request whose location holds a '/' and whose template id
\* is empty.
C8_Witness ==
    /\ Len(requests) = 1
    /\ args[1].location = "a/b"
    /\ args[1].template_id = ""
    /\ requests[1].job_template.name = "projects/p/locations/a/b/jobTemplates/"

(* C9: the notification destination is the topic
   projects/{project_id}/topics/{pubsub_topic}: the project is the one of
   the request's parent, location and template_id do not enter it, and
   the pubsub_topic argument enters the request nowhere else. *)
C9_TopicFromProjectAndTopic ==
    \A i \in 1..Len(requests) :
        LET a   == args[1]
            r   == requests[i]
            cfg == r.job_template.config
        IN  /\ cfg.pubsub_destination =
                   [topic |-> "projects/" \o a.project_id \o "/topics/"
                                  \o a.pubsub_topic]
            /\ IsPrefix("projects/" \o a.project_id \o "/",
                        cfg.pubsub_destination.topic)
            /\ IsPrefix("projects/" \o a.project_id \o "/", r.parent)
            /\ r = [method          |-> "create_job_template",
                    parent          |-> "projects/" \o a.project_id
                                            \o "/locations/" \o a.location,
                    job_template    |->
                        [name   |-> "projects/" \o a.project_id
                                        \o "/locations/" \o a.location
                                        \o "/jobTemplates/" \o a.template_id,
                         config |-> [cfg EXCEPT !.pubsub_destination =
                                        [topic |-> "projects/" \o a.project_id
                                                       \o "/topics/"
                                                       \o a.pubsub_topic]]],
                    job_template_id |-> a.template_id]
            /\ DOMAIN cfg =
                   {"pubsub_destination", "elementary_streams", "mux_streams"}
            /\ \A e \in Range(cfg.elementary_streams) :
                   e.key \in {"video-stream0", "video-stream1", "audio-stream0"}

\* C9's case: a request whose topic differs from every other argument.
C9_Witness ==
    /\ Len(requests) = 1
    /\ args[1].pubsub_topic = "a/b"
    /\ args[1].project_id = "p"
    /\ args[1].location = ""
    /\ args[1].template_id = ""
    /\ requests[1].job_template.config.pubsub_destination.topic =
           "projects/p/topics/a/b"

(* C10: the stream graph of the configuration sent is closed: elementary
   stream keys are pairwise distinct, mux stream keys are pairwise
   distinct, every key a mux stream lists is the key of a defined
   elementary stream, every elementary stream is listed by some mux
   stream, and each mux stream lists exactly one video stream and the one
   audio stream: "sd" the 360-line video, "hd" the 720-line video. *)
C10_StreamGraphClosed ==
    \A n \in 1..Len(requests) :
        LET cfg == requests[n].job_template.config
            es  == cfg.elementary_streams
            ms  == cfg.mux_streams
            VideoKeys == {es[i].key : i \in VideoIndices(cfg)}
            AudioKeys == {es[i].key : i \in AudioIndices(cfg)}
            Height(k) == {es[i].video_stream.height_pixels :
                             i \in {j \in VideoIndices(cfg) : es[j].key = k}}
            Lines(m)  == UNION {Height(k) : k \in Range(m.elementary_streams)
                                                      \cap VideoKeys}
        IN  /\ \A i, j \in DOMAIN es : es[i].key = es[j].key => i = j
            /\ \A i, j \in DOMAIN ms : ms[i].key = ms[j].key => i = j
            /\ \A m \in Range(ms) :
                   Range(m.elementary_streams) \subseteq VideoKeys \cup AudioKeys
            /\ \A e \in Range(es) :
                   \E m \in Range(ms) : e.key \in Range(m.elementary_streams)
            /\ Cardinality(AudioKeys) = 1
            /\ \A m \in Range(ms) :
                   /\ Len(m.elementary_streams) = 2
                   /\ Cardinality(Range(m.elementary_streams) \cap VideoKeys) = 1
                   /\ AudioKeys \subseteq Range(m.elementary_streams)
            /\ \A m \in Range(ms) :
                   /\ m.key = "sd" => Lines(m) = {360}
                   /\ m.key = "hd" => Lines(m) = {720}
            /\ {m.key : m \in Range(ms)} = {"sd", "hd"}

\* C10's case: the request is in flight, carrying both mux streams.
C10_Witness ==
    /\ pc = "await"
    /\ Len(requests) = 1
    /\ Len(requests[1].job_template.config.mux_streams) = 2
    /\ Len(requests[1].job_template.config.elementary_streams) = 3

====
